---- MODULE Spec2Model ----
(***************************************************************************)
(* Hole data ETL (pipeline.py): extract a parts table, flatten each part's *)
(* JSON list of holes into a holes table, classify every hole with two     *)
(* unreachable-hole flags, and load the three tables.                      *)
(*                                                                         *)
(* A DataFrame is a sequence of rows [index |-> label, cols |-> f], f a    *)
(* function from column names to Python values.  A Python call that may    *)
(* raise returns [exc |-> name, val |-> value], exc = "none" on return.    *)
(***************************************************************************)
EXTENDS Integers, Sequences, FiniteSets, TLC

VARIABLES
    file,            \* the .parquet file named by params.filename
    write,           \* params.write
    pc,              \* position of main: the call about to be made
    err,             \* the exception that ended the run, if any
    df,              \* main: df (parts)
    df_holes,        \* transform: df_holes
    df_unreachable,  \* transform: df_unreachable
    store,           \* tables of the postgres database part_data
    files,           \* ./parts.csv, ./holes.csv, ./unreachable_flags.csv
    written,         \* outputs this run has written so far
    before,          \* the database tables as this run found them
    args,            \* unit level: arguments of the function under call
    out              \* unit level: what the call returned or raised

vars == <<file, write, pc, err, df, df_holes, df_unreachable, store, files,
          written, before, args, out>>

----------------------------------------------------------------------------
(* Bounds of the model *)

\* most rows of a parts table
MaxParts == 2
\* most hole descriptors in one parts table
MaxHoles == 3
\* most keys present in a descriptor of the unit-level specification
MaxKeys == 2
\* lengths 0..MaxLength and radii -MaxRadius..MaxRadius at unit level
MaxLength == 500
MaxRadius == 4

----------------------------------------------------------------------------
(* Python values *)

None == [t |-> "None"]
NaN == [t |-> "nan"]
\* a key that is not in a dict: looking it up raises KeyError
Missing == [t |-> "missing"]
PyInt(n) == [t |-> "int", v |-> n]
PyBool(b) == [t |-> "bool", v |-> b]
PyDict(f) == [t |-> "dict", v |-> f]
PyList(s) == [t |-> "list", v |-> s]
PyStr(s) == [t |-> "str", v |-> s]

Ok(v) == [exc |-> "none", val |-> v]
Raise(e) == [exc |-> e, val |-> None]

\* pd.isnull / NA as dropna sees it
isnull(x) == x.t \in {"None", "nan"}

\* obj[key]
GetItem(obj, key) ==
    IF obj.t = "dict"
    THEN IF key \in DOMAIN obj.v /\ obj.v[key].t # "missing"
         THEN Ok(obj.v[key])
         ELSE Raise("KeyError")
    ELSE Raise("TypeError")

\* least index of a sequence of results that raised, 0 if none did
FirstRaise(rs) ==
    IF \E i \in DOMAIN rs : rs[i].exc # "none"
    THEN CHOOSE i \in DOMAIN rs :
            /\ rs[i].exc # "none"
            /\ \A j \in DOMAIN rs : rs[j].exc # "none" => i <= j
    ELSE 0

RECURSIVE Concat(_)
Concat(ss) == IF ss = <<>> THEN <<>> ELSE Head(ss) \o Concat(Tail(ss))

----------------------------------------------------------------------------
(* Hole descriptors *)

Features == {"center", "direction", "end1", "end2",
             "facet_count", "length", "radius"}

SubKeys(feature) ==
    CASE feature \in {"center", "direction"} -> {"x", "y", "z"}
      [] feature \in {"end1", "end2"} -> {"closed", "reachable"}
      [] OTHER -> {}

\* subfeature = None
NoSubfeature == "<None>"

\* the 13 extractions of extract_hole, in order
HoleColumns == <<
    [col |-> "center_x", feature |-> "center", subfeature |-> "x"],
    [col |-> "center_y", feature |-> "center", subfeature |-> "y"],
    [col |-> "center_z", feature |-> "center", subfeature |-> "z"],
    [col |-> "direction_x", feature |-> "direction", subfeature |-> "x"],
    [col |-> "direction_y", feature |-> "direction", subfeature |-> "y"],
    [col |-> "direction_z", feature |-> "direction", subfeature |-> "z"],
    [col |-> "end1_closed", feature |-> "end1", subfeature |-> "closed"],
    [col |-> "end1_reachable", feature |-> "end1", subfeature |-> "reachable"],
    [col |-> "end2_closed", feature |-> "end2", subfeature |-> "closed"],
    [col |-> "end2_reachable", feature |-> "end2", subfeature |-> "reachable"],
    [col |-> "facet_count", feature |-> "facet_count", subfeature |-> NoSubfeature],
    [col |-> "length", feature |-> "length", subfeature |-> NoSubfeature],
    [col |-> "radius", feature |-> "radius", subfeature |-> NoSubfeature] >>

HoleColumnNames == {HoleColumns[i].col : i \in DOMAIN HoleColumns}

\* whole[subfeature], whole being what hole[feature] gave
GetSubItem(whole, subfeature) ==
    IF whole.exc = "none" THEN GetItem(whole.val, subfeature) ELSE whole

\* except KeyError: out = None
ExceptKeyError(r) == IF r.exc = "KeyError" THEN Ok(None) ELSE r

extract_hole_feature(hole, feature, subfeature) ==
    ExceptKeyError(IF subfeature # NoSubfeature
                   THEN GetSubItem(GetItem(hole, feature), subfeature)
                   ELSE GetItem(hole, feature))

\* the dict d of extract_hole, given what the 13 extractions gave in order
HoleFeatures(rs) ==
    IF FirstRaise(rs) # 0
    THEN Raise(rs[FirstRaise(rs)].exc)
    ELSE Ok([c \in HoleColumnNames |->
               rs[CHOOSE i \in DOMAIN HoleColumns : HoleColumns[i].col = c].val])

extract_hole(hole) ==
    HoleFeatures([i \in DOMAIN HoleColumns |->
                    extract_hole_feature(hole, HoleColumns[i].feature,
                                         HoleColumns[i].subfeature)])

----------------------------------------------------------------------------
(* The holes field: None, or a str holding JSON text.  The text is a        *)
(* sequence of tokens: "[", "]", ",", or the spelling of one object.        *)

\* a descriptor that spells the given keys; every other key is absent
Hole(given) ==
    PyDict([f \in Features |-> IF f \in DOMAIN given THEN given[f] ELSE Missing])

Xyz(x, y, z) == PyDict([x |-> PyInt(x), y |-> PyInt(y), z |-> PyInt(z)])
End(closed, reachable) ==
    PyDict([closed |-> PyBool(closed), reachable |-> PyBool(reachable)])

\* every field given; length 100 > 80, not > 320
HoleA ==
    Hole([center |-> Xyz(1, 2, 3), direction |-> Xyz(0, 0, 1),
          end1 |-> End(FALSE, TRUE), end2 |-> End(TRUE, FALSE),
          facet_count |-> PyInt(12), length |-> PyInt(100), radius |-> PyInt(4)])
\* length 500 > 320; direction, end1, end2, facet_count absent
HoleB ==
    Hole([center |-> Xyz(1, 2, 3), length |-> PyInt(500), radius |-> PyInt(4)])
\* {}
HoleEmpty == Hole([f \in {} |-> None])
\* no length
HoleNoLength == Hole([center |-> Xyz(1, 2, 3), radius |-> PyInt(4)])
\* "center": null
HoleNullCenter ==
    Hole([center |-> None, length |-> PyInt(100), radius |-> PyInt(4)])

\* the object texts of the model and the objects they spell
Spelled ==
    [A |-> HoleA, B |-> HoleB, Empty |-> HoleEmpty, NoLength |-> HoleNoLength,
     NullCenter |-> HoleNullCenter]

\* the JSON text of a list of objects, given by their texts
RECURSIVE dumps_items(_)
dumps_items(objs) ==
    IF objs = <<>> THEN <<>>
    ELSE IF Len(objs) = 1 THEN <<objs[1]>>
    ELSE <<objs[1], ",">> \o dumps_items(Tail(objs))

dumps(objs) == <<"[">> \o dumps_items(objs) \o <<"]">>

\* json.loads past "[" obj: "," obj ... "]" and the end of the text
RECURSIVE loads_items(_, _, _)
loads_items(text, i, acc) ==
    IF i > Len(text) \/ text[i] \notin DOMAIN Spelled \/ i + 1 > Len(text)
    THEN Raise("JSONDecodeError")
    ELSE LET acc2 == Append(acc, Spelled[text[i]])
         IN IF text[i + 1] = "]"
            THEN IF i + 1 = Len(text) THEN Ok(acc2)
                 ELSE Raise("JSONDecodeError")
            ELSE IF text[i + 1] = ","
                 THEN loads_items(text, i + 2, acc2)
                 ELSE Raise("JSONDecodeError")

json_loads(text) ==
    IF Len(text) < 2 \/ text[1] # "["
    THEN Raise("JSONDecodeError")
    ELSE IF text[2] = "]"
         THEN IF Len(text) = 2 THEN Ok(<<>>) ELSE Raise("JSONDecodeError")
         ELSE loads_items(text, 2, <<>>)

\* {} : a dict with no key
EmptyDict == [c \in {} |-> <<>>]

\* the names of HoleColumns that are keys of some dict of the Series, in order
ColumnsOf(dicts) ==
    LET present(c) == \E i \in DOMAIN dicts : c.col \in DOMAIN dicts[i]
        names == [i \in DOMAIN HoleColumns |-> HoleColumns[i].col]
    IN SelectSeq(names, LAMBDA n :
            \E i \in DOMAIN HoleColumns :
                HoleColumns[i].col = n /\ present(HoleColumns[i]))

\* dout, given what extract_hole gave for every hole of the list in order
CombineHoles(ds) ==
    IF FirstRaise(ds) # 0
    THEN Raise(ds[FirstRaise(ds)].exc)
    ELSE Ok([c \in UNION {DOMAIN ds[i].val : i \in DOMAIN ds} |->
               [i \in DOMAIN ds |-> ds[i].val[c]]])

\* the loop over the holes that json.loads gave
ExtractParsed(parsed) ==
    IF parsed.exc # "none"
    THEN parsed
    ELSE CombineHoles([i \in DOMAIN parsed.val |-> extract_hole(parsed.val[i])])

\* json.loads in a try that takes a text it rejects for an empty list
LenientParsed(parsed) == IF parsed.exc # "none" THEN Ok(<<>>) ELSE parsed

\* extract_holes that skips a holes field which is not JSON
extract_holes_skip_bad(holes) ==
    IF isnull(holes)
    THEN Ok(EmptyDict)
    ELSE ExtractParsed(LenientParsed(json_loads(holes.v)))

extract_holes(holes) ==
    IF isnull(holes)
    THEN Ok(EmptyDict)
    ELSE ExtractParsed(json_loads(holes.v))

----------------------------------------------------------------------------
(* create_holes_df *)

\* df_holes.apply(pd.Series): one column per key, NaN where a dict lacks it
apply_pd_Series(index, dicts, columns) ==
    [i \in DOMAIN dicts |->
        [index |-> index[i],
         cols |-> [c \in {columns[k] : k \in DOMAIN columns} |->
                     IF c \in DOMAIN dicts[i] THEN PyList(dicts[i][c]) ELSE NaN]]]

\* explode's mylen
mylen(x) == IF x.t = "list" /\ Len(x.v) > 0 THEN Len(x.v) ELSE 1

\* Series.explode of one cell: its elements, NaN for an empty list, a scalar as is
explode_cell(x, k) ==
    IF x.t = "list" THEN (IF Len(x.v) > 0 THEN x.v[k] ELSE NaN) ELSE x

explode_row(row, columns) ==
    [k \in 1..mylen(row.cols[columns[1]]) |->
        [index |-> row.index,
         cols |-> [c \in DOMAIN row.cols |-> explode_cell(row.cols[c], k)]]]

\* rows numbered 0, 1, ...
Renumbered(rows) ==
    [j \in DOMAIN rows |-> [index |-> j - 1, cols |-> rows[j].cols]]

\* explode(columns, ignore_index = True)
explode_ignore_index(frame, columns) ==
    IF columns = <<>>
    THEN Raise("ValueError")
    ELSE Ok(Renumbered(
            Concat([i \in DOMAIN frame |-> explode_row(frame[i], columns)])))

\* DataFrame.explode(columns), every column of the frame being exploded
explode(frame, columns) ==
    IF columns = <<>>
    THEN Raise("ValueError")
    ELSE IF \E i \in DOMAIN frame : \E k \in DOMAIN columns :
               mylen(frame[i].cols[columns[k]]) # mylen(frame[i].cols[columns[1]])
         THEN Raise("ValueError")
         ELSE Ok(Concat([i \in DOMAIN frame |-> explode_row(frame[i], columns)]))

\* dropna(axis = 0, how = 'all')
dropna_all(frame) ==
    SelectSeq(frame, LAMBDA row :
        \E c \in DOMAIN row.cols : ~isnull(row.cols[c]))

\* reset_index(drop = False) of a frame whose index is named part_index
reset_index(frame) ==
    [j \in DOMAIN frame |->
        [index |-> j - 1,
         cols |-> ("part_index" :> PyInt(frame[j].index)) @@ frame[j].cols]]

\* lines 116 to 121, on what explode gave
HolesTable(exploded) ==
    IF exploded.exc # "none"
    THEN exploded
    ELSE Ok(reset_index(dropna_all(exploded.val)))

\* lines 112 and 113, on the dicts of the Series and its index
HolesFrame(index, dicts, columns) ==
    explode(apply_pd_Series(index, dicts, columns), columns)

\* lines 112 to 121, on what extract_holes gave for every row in order
HolesOfSeries(parts, rs) ==
    IF FirstRaise(rs) # 0
    THEN Raise(rs[FirstRaise(rs)].exc)
    ELSE HolesTable(HolesFrame([i \in DOMAIN parts |-> parts[i].index],
                               [i \in DOMAIN parts |-> rs[i].val],
                               ColumnsOf([i \in DOMAIN parts |-> rs[i].val])))

create_holes_df(parts) ==
    HolesOfSeries(parts,
                  [i \in DOMAIN parts |-> extract_holes(parts[i].cols["holes"])])

----------------------------------------------------------------------------
(* create_unreachable_df *)

WarningFactor == 10
ErrorFactor == 40

\* a * n
py_mul(a, n) == IF a.t = "int" THEN Ok(PyInt(a.v * n)) ELSE Raise("TypeError")
\* a > b
py_gt(a, b) ==
    IF a.t = "int" /\ b.t = "int" THEN Ok(PyBool(a.v > b.v)) ELSE Raise("TypeError")

\* length > radius * 2 * factor
\* r * n, r being what an operand gave
then_mul(r, n) == IF r.exc = "none" THEN py_mul(r.val, n) ELSE r
\* a > r
gt_then(a, r) == IF r.exc = "none" THEN py_gt(a, r.val) ELSE r

\* length > radius * 2 * factor
exceeds(length, radius, factor) ==
    gt_then(length, then_mul(py_mul(radius, 2), factor))

\* has_warning with the body of has_error
has_warning_as_error(length, radius) == exceeds(length, radius, ErrorFactor)

has_warning(length, radius) == exceeds(length, radius, WarningFactor)

has_error(length, radius) == exceeds(length, radius, ErrorFactor)

FlagColumns == {"has_unreachable_hole_warning", "has_unreachable_hole_error"}

\* frame[column] = values
set_column(frame, column, values) ==
    [j \in DOMAIN frame |->
        [index |-> frame[j].index,
         cols |-> (column :> values[j]) @@ frame[j].cols]]

\* frame[columns]
select_columns(frame, columns) ==
    [j \in DOMAIN frame |->
        [index |-> frame[j].index,
         cols |-> [c \in columns |-> frame[j].cols[c]]]]

\* frame.drop(columns = columns) with its result not kept
drop_nothing(frame, columns) == frame

\* frame.drop(columns = columns)
drop_columns(frame, columns) ==
    [j \in DOMAIN frame |->
        [index |-> frame[j].index,
         cols |-> [c \in (DOMAIN frame[j].cols) \ columns |-> frame[j].cols[c]]]]

\* lines 165 to 168, on the frame with its two flag columns
SplitFlags(flagged) ==
    Ok([df_holes |-> drop_columns(flagged, FlagColumns),
        df_unreachable |-> select_columns(flagged, FlagColumns)])

\* lines 158 to 168, on what has_warning and has_error gave for every row.
\* On a frame of no rows DataFrame.apply(axis = 1) gives an empty Series in
\* some pandas versions and a copy of the frame in others, which cannot be
\* set as one column: either outcome is possible.
FlagsOfRows(holes, ws, es) ==
    IF holes = <<>> THEN {SplitFlags(holes), Raise("ValueError")}
    ELSE IF FirstRaise(ws) # 0 THEN {Raise(ws[FirstRaise(ws)].exc)}
    ELSE IF FirstRaise(es) # 0 THEN {Raise(es[FirstRaise(es)].exc)}
    ELSE {SplitFlags(
            set_column(
                set_column(holes, "has_unreachable_hole_warning",
                           [j \in DOMAIN holes |-> ws[j].val]),
                "has_unreachable_hole_error",
                [j \in DOMAIN holes |-> es[j].val]))}

\* the outcomes of create_unreachable_df
create_unreachable_df(holes) ==
    FlagsOfRows(holes,
        [j \in DOMAIN holes |->
            has_warning(holes[j].cols["length"], holes[j].cols["radius"])],
        [j \in DOMAIN holes |->
            has_error(holes[j].cols["length"], holes[j].cols["radius"])])

----------------------------------------------------------------------------
(* extract and load *)

\* pd.read_parquet of a file that stores no index: rows 0, 1, ...
extract(f) ==
    IF ~f.readable
    THEN Raise("FileNotFoundError")
    ELSE Ok([i \in DOMAIN f.holes |->
               [index |-> i - 1, cols |-> [holes |-> f.holes[i]]]])

NoTable == [exists |-> FALSE, rows |-> <<>>]

IfExistsAppend == "append"

\* if_exists of the three to_sql calls
IfExists == "replace"

\* DataFrame.to_sql(name, con, if_exists) on the table of that name
to_sql(table, frame, if_exists) ==
    IF table.exists /\ if_exists = "append"
    THEN [exists |-> TRUE, rows |-> table.rows \o frame]
    ELSE [exists |-> TRUE, rows |-> frame]

NoFile == [exists |-> FALSE, header |-> <<>>, lines |-> <<>>]

\* a cell as csv text: nothing for None and NaN, a str as it is
csv_cell(x) ==
    IF isnull(x) THEN <<>>
    ELSE IF x.t = "str" THEN x.v
    ELSE IF x.t = "bool" THEN <<IF x.v THEN "True" ELSE "False">>
    ELSE <<ToString(x.v)>>

\* DataFrame.to_csv(path): header and one line per row, the index first
to_csv(frame, index_name, columns) ==
    [exists |-> TRUE,
     header |-> <<index_name>> \o columns,
     lines |-> [j \in DOMAIN frame |->
                  <<csv_cell(PyInt(frame[j].index))>> \o
                  [k \in DOMAIN columns |-> csv_cell(frame[j].cols[columns[k]])]]]

HoleColumnSeq == [i \in DOMAIN HoleColumns |-> HoleColumns[i].col]

----------------------------------------------------------------------------
(* Inputs *)

Descriptors == DOMAIN Spelled

\* holes fields that spell h descriptors; with h = 0: null, "", "[" and "[]"
FieldsWith(h) ==
    IF h = 0
    THEN {None, PyStr(<<>>), PyStr(<<"[">>), PyStr(dumps(<<>>))}
    ELSE {PyStr(dumps(a)) : a \in [1..h -> Descriptors]}

FileOf(col) == [readable |-> TRUE, holes |-> col]
\* a path that read_parquet cannot read
Unreadable == [readable |-> FALSE, holes |-> <<>>]
Json(objs) == PyStr(dumps(objs))

\* the files of the runs of main
RunFiles ==
    {Unreadable,
     FileOf(<<None>>),
     FileOf(<<Json(<<"A">>)>>),
     FileOf(<<Json(<<"B", "A">>), None>>),
     FileOf(<<Json(<<"Empty">>), Json(<<"B">>)>>),
     FileOf(<<Json(<<"A">>), PyStr(<<"[">>)>>),
     FileOf(<<Json(<<"NoLength">>)>>)}

\* descriptors with at most MaxKeys keys; an object key holds null, a number
\* or an object with some of its subkeys, a scalar key null or a number
KeyValues(feature) ==
    IF SubKeys(feature) = {}
    THEN {Missing, None, PyInt(7)}
    ELSE {Missing, None, PyInt(7)} \cup
         {PyDict(sub) : sub \in [SubKeys(feature) -> {Missing, PyInt(7)}]}

UnitHoles ==
    {PyDict(h) : h \in
        {g \in [center : KeyValues("center"), direction : KeyValues("direction"),
                end1 : KeyValues("end1"), end2 : KeyValues("end2"),
                facet_count : KeyValues("facet_count"),
                length : KeyValues("length"), radius : KeyValues("radius")] :
            Cardinality({f \in Features : g[f].t # "missing"}) <= MaxKeys}}

----------------------------------------------------------------------------
(* main *)

NoErr == [exc |-> "none", at |-> "none"]
NoCall == [fn |-> "none"]
NoArgs == [fn |-> "none"]

EmptyStore == [parts |-> NoTable, holes |-> NoTable, unreachable_flags |-> NoTable]
EmptyFiles == [parts |-> NoFile, holes |-> NoFile, unreachable_flags |-> NoFile]

Fail(exc, at) ==
    /\ pc' = "failed"
    /\ err' = [exc |-> exc, at |-> at]

\* df = extract(filename), r being what extract gave
Extracted(r) ==
    IF r.exc = "none"
    THEN /\ df' = r.val
         /\ pc' = "create_holes_df"
         /\ UNCHANGED err
    ELSE /\ Fail(r.exc, "extract")
         /\ UNCHANGED df

Extract ==
    /\ pc = "extract"
    /\ Extracted(extract(file))
    /\ UNCHANGED <<file, write, df_holes, df_unreachable, store, files,
                   written, before, args, out>>

\* transform: df_holes = create_holes_df(df), r being what it gave
HolesCreated(r) ==
    IF r.exc = "none"
    THEN /\ df_holes' = r.val
         /\ pc' = "create_unreachable_df"
         /\ UNCHANGED err
    ELSE /\ Fail(r.exc, "create_holes_df")
         /\ UNCHANGED df_holes

CreateHolesDf ==
    /\ pc = "create_holes_df"
    /\ HolesCreated(create_holes_df(df))
    /\ UNCHANGED <<file, write, df, df_unreachable, store, files,
                   written, before, args, out>>

\* transform: df_holes, df_unreachable = create_unreachable_df(df_holes)
CreateUnreachableDf ==
    /\ pc = "create_unreachable_df"
    /\ \E r \in create_unreachable_df(df_holes) :
          IF r.exc = "none"
          THEN /\ df_holes' = r.val.df_holes
               /\ df_unreachable' = r.val.df_unreachable
               /\ pc' = "load_parts"
               /\ UNCHANGED err
          ELSE /\ Fail(r.exc, "create_unreachable_df")
               /\ UNCHANGED <<df_holes, df_unreachable>>
    /\ UNCHANGED <<file, write, df, store, files, written, before, args, out>>

\* load: one of the three to_sql or to_csv calls
Save(name, frame, index_name, columns, next) ==
    /\ IF write
       THEN /\ store' = [store EXCEPT ![name] = to_sql(@, frame, IfExists)]
            /\ UNCHANGED files
       ELSE /\ files' = [files EXCEPT ![name] = to_csv(frame, index_name, columns)]
            /\ UNCHANGED store
    /\ written' = written \cup {name}
    /\ pc' = next
    /\ UNCHANGED <<file, write, err, df, df_holes, df_unreachable, before,
                   args, out>>

LoadParts ==
    /\ pc = "load_parts"
    /\ Save("parts", df, "part_index", <<"holes">>, "load_holes")

LoadHoles ==
    /\ pc = "load_holes"
    /\ Save("holes", df_holes, "hole_index", <<"part_index">> \o HoleColumnSeq,
            "load_unreachable")

LoadUnreachable ==
    /\ pc = "load_unreachable"
    /\ Save("unreachable_flags", df_unreachable, "hole_index",
            <<"has_unreachable_hole_warning", "has_unreachable_hole_error">>,
            "done")

\* the program is run again
NewRun ==
    /\ pc \in {"done", "failed"}
    /\ file' \in RunFiles
    /\ write' \in BOOLEAN
    /\ pc' = "extract"
    /\ err' = NoErr
    /\ df' = <<>>
    /\ df_holes' = <<>>
    /\ df_unreachable' = <<>>
    /\ written' = {}
    /\ before' = store
    /\ UNCHANGED <<store, files, args, out>>

Init ==
    /\ file \in RunFiles
    /\ write \in BOOLEAN
    /\ pc = "extract"
    /\ err = NoErr
    /\ df = <<>>
    /\ df_holes = <<>>
    /\ df_unreachable = <<>>
    /\ store = EmptyStore
    /\ files = EmptyFiles
    /\ written = {}
    /\ before = EmptyStore
    /\ args = NoArgs
    /\ out = NoCall

Next ==
    \/ Extract
    \/ CreateHolesDf
    \/ CreateUnreachableDf
    \/ LoadParts
    \/ LoadHoles
    \/ LoadUnreachable
    \/ NewRun

Spec == Init /\ [][Next]_vars

----------------------------------------------------------------------------
(* transform alone, on every parts table within the bounds *)

\* file has the holes column col and n more rows, which spell at most budget
\* descriptors together
RECURSIVE FileHolds(_, _, _)
FileHolds(col, n, budget) ==
    IF n = 0
    THEN file = FileOf(col)
    ELSE \E h \in 0..budget : \E f \in FieldsWith(h) :
            FileHolds(Append(col, f), n - 1, budget - h)

InitTransform ==
    /\ \E n \in 1..MaxParts : FileHolds(<<>>, n, MaxHoles)
    /\ write = FALSE
    /\ pc = "create_holes_df"
    /\ err = NoErr
    /\ df = extract(file).val
    /\ df_holes = <<>>
    /\ df_unreachable = <<>>
    /\ store = EmptyStore
    /\ files = EmptyFiles
    /\ written = {}
    /\ before = EmptyStore
    /\ args = NoArgs
    /\ out = NoCall

NextTransform ==
    \/ CreateHolesDf
    \/ CreateUnreachableDf

SpecTransform == InitTransform /\ [][NextTransform]_vars

----------------------------------------------------------------------------
(* unit level: the extraction of one descriptor, the flags of one row *)

InitUnit(inputs) ==
    /\ args \in inputs
    /\ out = NoCall
    /\ file = Unreadable
    /\ write = FALSE
    /\ pc = "unit"
    /\ err = NoErr
    /\ df = <<>>
    /\ df_holes = <<>>
    /\ df_unreachable = <<>>
    /\ store = EmptyStore
    /\ files = EmptyFiles
    /\ written = {}
    /\ before = EmptyStore

Call(result) ==
    /\ pc = "unit"
    /\ out' = result
    /\ UNCHANGED <<file, write, pc, err, df, df_holes, df_unreachable, store,
                   files, written, before, args>>

ExtractHoleFeature ==
    \E i \in DOMAIN HoleColumns :
        Call([fn |-> "extract_hole_feature",
              feature |-> HoleColumns[i].feature,
              subfeature |-> HoleColumns[i].subfeature,
              ret |-> extract_hole_feature(args.hole, HoleColumns[i].feature,
                                           HoleColumns[i].subfeature)])

ExtractHole ==
    Call([fn |-> "extract_hole", ret |-> extract_hole(args.hole)])

InitExtract == InitUnit({[fn |-> "extract_hole", hole |-> h] : h \in UnitHoles})

NextExtract ==
    \/ ExtractHoleFeature
    \/ ExtractHole

SpecExtract == InitExtract /\ [][NextExtract]_vars

\* the two lambdas of create_unreachable_df on one row
ClassifyRow ==
    Call([fn |-> "classify",
          has_unreachable_hole_warning |-> has_warning(args.length, args.radius),
          has_unreachable_hole_error |-> has_error(args.length, args.radius)])

InitFlags ==
    InitUnit({[fn |-> "classify", length |-> PyInt(l), radius |-> PyInt(r)] :
                l \in 0..MaxLength, r \in (0 - MaxRadius)..MaxRadius})

NextFlags == ClassifyRow

SpecFlags == InitFlags /\ [][NextFlags]_vars

----------------------------------------------------------------------------
(* Properties of the flattening and the classification (SpecTransform) *)

\* create_holes_df has returned df_holes
Flattened ==
    \/ pc \in {"create_unreachable_df", "load_parts"}
    \/ pc = "failed" /\ err.at = "create_unreachable_df"

RowsOfPart(frame, p) ==
    SelectSeq(frame, LAMBDA row : row.cols["part_index"] = PyInt(p))

\* the list json.loads gave, none if it raised
ListOf(parsed) == IF parsed.exc = "none" THEN parsed.val ELSE <<>>

\* the descriptors a holes field spells
DescriptorsOf(field) ==
    IF isnull(field) THEN <<>> ELSE ListOf(json_loads(field.v))

\* the 13 features of a row of the holes table
FeaturesOf(row) == [c \in HoleColumnNames |-> row.cols[c]]

AllFeaturesOf(rows) == [j \in DOMAIN rows |-> FeaturesOf(rows[j])]

\* what extract_hole returns for each descriptor of a list
AllExtracted(hs) == [k \in DOMAIN hs |-> extract_hole(hs[k]).val]

\* s is t with some elements left out
RECURSIVE IsSubseq(_, _)
IsSubseq(s, t) ==
    IF s = <<>> THEN TRUE
    ELSE IF t = <<>> THEN FALSE
    ELSE IF Head(s) = Head(t) THEN IsSubseq(Tail(s), Tail(t))
    ELSE IsSubseq(s, Tail(t))

\* the row of the parts table that a row of the holes table names
PartPosition(row) ==
    CHOOSE i \in DOMAIN df : PyInt(df[i].index) = row.cols["part_index"]

\* C1: the holes table returned by create_holes_df has, for every part, as
\* many rows with that part's index as the part's JSON array has descriptors
\* (none for a null field or an empty array), whatever the descriptors are.
C1_Cardinality ==
    Flattened =>
        \A i \in DOMAIN df :
            Len(RowsOfPart(df_holes, df[i].index))
                = Len(DescriptorsOf(df[i].cols["holes"]))

C5_PositionalCorrespondence ==
    pc = "load_parts" =>
        /\ Len(df_unreachable) = Len(df_holes)
        /\ \A j \in DOMAIN df_holes :
              /\ df_unreachable[j].index = df_holes[j].index
              /\ df_unreachable[j].cols =
                    [has_unreachable_hole_warning |->
                        has_warning(df_holes[j].cols["length"],
                                    df_holes[j].cols["radius"]).val,
                     has_unreachable_hole_error |->
                        has_error(df_holes[j].cols["length"],
                                  df_holes[j].cols["radius"]).val]
        /\ df_holes = create_holes_df(df).val

\* three holes classified, not all with the same flags
C5_Witness ==
    /\ pc = "load_parts"
    /\ Len(df_holes) >= 3
    /\ \E j, k \in DOMAIN df_unreachable :
          df_unreachable[j].cols # df_unreachable[k].cols

NoHoles(field) == isnull(field) \/ field = PyStr(dumps(<<>>))

\* C6: a part whose holes field is null or "[]" contributes no row to the
\* holes table and none to the unreachable table, and transform completes
\* without error, also on a parts table in which every part has no holes.
C6_NoHolePartsExcluded ==
    /\ Flattened =>
          \A i \in DOMAIN df :
              NoHoles(df[i].cols["holes"]) => RowsOfPart(df_holes, df[i].index) = <<>>
    /\ pc = "load_parts" => Len(df_unreachable) = Len(df_holes)
    /\ (\A i \in DOMAIN df : NoHoles(df[i].cols["holes"])) => pc # "failed"

\* C9: when a row of the holes table has a null length or radius,
\* create_unreachable_df does not raise: it returns one unreachable row for
\* that hole, with flags that are null or false.
C9_NullLengthOrRadius ==
    \A j \in DOMAIN df_holes :
        (/\ pc \in {"load_parts", "failed"}
         /\ Flattened
         /\ \/ isnull(df_holes[j].cols["length"])
            \/ isnull(df_holes[j].cols["radius"]))
        => /\ pc = "load_parts"
           /\ Len(df_unreachable) = Len(df_holes)
           /\ \A c \in FlagColumns :
                 \/ isnull(df_unreachable[j].cols[c])
                 \/ df_unreachable[j].cols[c] = PyBool(FALSE)

\* the parts table with None for every empty string
NullForEmpty(parts) ==
    [i \in DOMAIN parts |->
        [index |-> parts[i].index,
         cols |-> [holes |-> IF parts[i].cols["holes"] = PyStr(<<>>) THEN None
                             ELSE parts[i].cols["holes"]]]]

\* create_holes_df did what r says
DidAsOn(r) ==
    IF r.exc = "none"
    THEN Flattened /\ (pc = "create_unreachable_df" => df_holes = r.val)
    ELSE err = [exc |-> r.exc, at |-> "create_holes_df"]

\* C10: a part whose holes field is the empty string is treated like a part
\* whose holes field is null: create_holes_df does on the table what it does
\* with null in place of the empty string, and the empty string makes no
\* run fail.
C10_EmptyStringAsNull ==
    (/\ pc # "create_holes_df"
     /\ \E i \in DOMAIN df : df[i].cols["holes"] = PyStr(<<>>))
    => DidAsOn(create_holes_df(NullForEmpty(df)))

----------------------------------------------------------------------------
(* Properties of one extraction and of the flags of one row *)

\* C3: extract_hole_feature returns the value looked up when it is there,
\* and None when the feature is absent, when the subfeature is absent in
\* the feature, or when the feature is null; it raises in none of these
\* cases, so that extract_hole of a descriptor without center returns
\* center_x, center_y and center_z None.
C3_ExtractionNeverRaises ==
    /\ out.fn = "extract_hole_feature" =>
          LET whole == args.hole.v[out.feature]
              sub == out.subfeature
          IN /\ whole.t = "missing" => out.ret = Ok(None)
             /\ whole.t # "missing" /\ sub = NoSubfeature => out.ret = Ok(whole)
             /\ whole.t = "None" /\ sub # NoSubfeature => out.ret = Ok(None)
             /\ whole.t = "dict" /\ sub # NoSubfeature =>
                   out.ret = Ok(IF whole.v[sub].t = "missing" THEN None
                                ELSE whole.v[sub])
    /\ (out.fn = "extract_hole" /\ args.hole.v["center"].t = "missing") =>
          /\ out.ret.exc = "none"
          /\ \A c \in {"center_x", "center_y", "center_z"} : out.ret.val[c] = None

\* C4: for integer length and radius the warning flag is length > radius *
\* 2 * 10 and the error flag is length > radius * 2 * 40, each on its own.
C4_ThresholdCorrectness ==
    out.fn = "classify" =>
        /\ out.has_unreachable_hole_warning
              = Ok(PyBool(args.length.v > args.radius.v * 2 * 10))
        /\ out.has_unreachable_hole_error
              = Ok(PyBool(args.length.v > args.radius.v * 2 * 40))

\* length 100, radius 4: warning and no error
C4_Witness ==
    /\ out.fn = "classify"
    /\ args.length = PyInt(100)
    /\ args.radius = PyInt(4)
    /\ out.has_unreachable_hole_warning = Ok(PyBool(TRUE))
    /\ out.has_unreachable_hole_error = Ok(PyBool(FALSE))

----------------------------------------------------------------------------
(* Properties of the runs of main (Spec) *)

Unparsable(field) == ~isnull(field) /\ json_loads(field.v).exc # "none"

\* the frames of the run are those transform returns on df
TransformReturned(holes) ==
    \E r \in create_unreachable_df(holes) :
        /\ r.exc = "none"
        /\ df_holes = r.val.df_holes
        /\ df_unreachable = r.val.df_unreachable


BadInput ==
    \/ ~file.readable
    \/ \E i \in DOMAIN file.holes : Unparsable(file.holes[i])

\* C7: when extract fails or the holes field of some part is not JSON, the
\* run ends with the error and has written none of the three outputs (the
\* part is not skipped); an output is written only once extract and
\* transform have both returned for the whole input.
C7_NoOutputOnFailure ==
    /\ BadInput =>
          /\ pc \in {"extract", "create_holes_df", "failed"}
          /\ pc = "failed" =>
                err.exc \in {"FileNotFoundError", "JSONDecodeError", "TypeError"}
    /\ pc = "failed" => written = {} /\ store = before
    /\ written # {} =>
          /\ pc \in {"load_holes", "load_unreachable", "done"}
          /\ df = extract(file).val
          /\ TransformReturned(create_holes_df(df).val)

\* a run that read a part with holes, then a part that is not JSON, after
\* an earlier run loaded the database
C7_Witness ==
    /\ pc = "failed"
    /\ err = [exc |-> "JSONDecodeError", at |-> "create_holes_df"]
    /\ file.holes[1] = Json(<<"A">>)
    /\ before["parts"].exists
    /\ store = before
    /\ written = {}

\* C8: when a run with write set is done, the tables parts, holes and
\* unreachable_flags hold the rows of that run and no others, whatever
\* earlier runs loaded.
C8_ReplaceSemantics ==
    (pc = "done" /\ write) =>
        /\ store["parts"] = [exists |-> TRUE, rows |-> df]
        /\ store["holes"] = [exists |-> TRUE, rows |-> df_holes]
        /\ store["unreachable_flags"] = [exists |-> TRUE, rows |-> df_unreachable]

\* a run has replaced the other rows an earlier run had loaded
C8_Witness ==
    /\ pc = "done"
    /\ write
    /\ before["parts"].exists
    /\ before["parts"].rows # df
    /\ before["holes"].rows # <<>>
    /\ df_holes # <<>>
    /\ before["holes"].rows # df_holes
    /\ before["unreachable_flags"].rows # df_unreachable

====
